---------------------------- MODULE Spec2Model ----------------------------
(***************************************************************************)
(* Load-stepping driver of demos/mfront/hyperelasticity/finite_strain_SVK  *)
(* (lines 177-201): the load schedule, the per-step solve, the snapshot,   *)
(* the maximum-reduction to rank 0 and the result log, run by `size`       *)
(* cooperating MPI processes that each execute the same script.            *)
(*                                                                         *)
(* Floating-point values are modelled as exact rationals <<n, d>> in       *)
(* lowest terms with d > 0; the one non-number a float64 cell can hold,    *)
(* NaN, is <<0, 0>>.  Python's None is the empty tuple.                    *)
(***************************************************************************)
EXTENDS Integers, Sequences, FiniteSets

\* Number of load increments.  The script sets 30 (line 177); the model runs
\* the same loop over a shorter schedule.
Nincr == 3

\* Largest number of MPI processes (comm.size) a run is started with.
MaxProcs == 2

\* domain.topology.dim of the rectangle mesh (line 64).
gdim == 2

\* The full self-weight, -50e3 (line 183).
TargetLoad == -50000

\* A reduction rooted at rank 1.
RootOne == 0 + 1

\* root=0 of the reduction (line 198).
Root == 0

\* Local dof arrays of the chosen displacement component, u.sub(1), that a
\* solve may leave on a process: two entries each, of either sign.
DofArrays == { <<0, 0>>, <<-2, 1>>, <<1, -1>> }

VARIABLES
    size,        \* comm.size, fixed for the run
    pc,          \* pc[p]: the line process p is at
    i,           \* i[p]: loop index of enumerate (line 182); -1 before the loop
    t,           \* t[p]: loop variable, the current load fraction
    selfweight,  \* selfweight[p].value, gdim components (line 88)
    w,           \* w[p]: local array of u.sub(1) (lines 92, 195)
    converged,   \* converged[p]: flag returned by the last solve (line 185)
    vtk,         \* vtk[p]: tags of the snapshots process p has written
    vtkOpen,     \* vtkOpen[p]: the VTK file is open (lines 180, 201)
    global_max,  \* global_max[p]: value returned by reduce (line 198)
    results,     \* results[p]: the (Nincr+1) x 2 result log (line 181)
    contrib,     \* contrib[p]: value sent to the root, not yet consumed
    attempts,    \* number of collective solve calls made so far
    nconv,       \* number of those that returned converged = True
    reduces      \* reduces[p]: reductions process p has taken part in

vars == << size, pc, i, t, selfweight, w, converged, vtk, vtkOpen,
           global_max, results, contrib, attempts, nconv, reduces >>

Ranks == 0 .. (size - 1)

---------------------------------------------------------------------------
\* Exact arithmetic on the values the script computes in floating point.

Abs(x) == IF x < 0 THEN -x ELSE x

RECURSIVE GCD(_, _)
GCD(a, b) == IF b = 0 THEN a ELSE GCD(b, a % b)

RatNorm(n, d) ==
    LET g == GCD(Abs(n), d) IN << n \div g, d \div g >>

Zero == << 0, 1 >>
One == << 1, 1 >>
NaN == << 0, 0 >>
None == << >>

FloatOf(n) == << n, 1 >>
RatAdd(a, b) == RatNorm(a[1] * b[2] + b[1] * a[2], a[2] * b[2])
RatSub(a, b) == RatNorm(a[1] * b[2] - b[1] * a[2], a[2] * b[2])
RatMul(a, b) == RatNorm(a[1] * b[1], a[2] * b[2])
RatDivInt(a, n) == RatNorm(a[1], a[2] * n)
RatLt(a, b) == a[1] * b[2] < b[1] * a[2]
RatAbs(a) == << Abs(a[1]), a[2] >>

---------------------------------------------------------------------------
\* linspace with endpoint=False: num samples that stop short of `stop`.
linspaceNoEndpoint(start, stop, num) ==
    LET step == RatDivInt(RatSub(stop, start), num)
    IN  [ k \in 0 .. (num - 1) |-> RatAdd(RatMul(FloatOf(k), step), start) ]

\* np.linspace(start, stop, num), endpoint=True: num samples, indexed from 0;
\* sample k is k * step + start with step = (stop - start) / (num - 1), and
\* the last sample is set to stop itself.
linspace(start, stop, num) ==
    LET div == num - 1
        step == RatDivInt(RatSub(stop, start), div)
    IN  [ k \in 0 .. (num - 1) |->
            IF k = num - 1 /\ num > 1
            THEN stop
            ELSE RatAdd(RatMul(FloatOf(k), step), start) ]

\* load_steps = np.linspace(0.0, 1.0, Nincr + 1)
load_steps == linspace(Zero, One, Nincr + 1)

\* A loop that stops one item short.
NumStepsShort == Nincr - 1

\* len(load_steps[1:]): the number of items the loop enumerates.
NumSteps == Nincr

\* Item i of enumerate(load_steps[1:]).
SliceItem(k) == load_steps[k + 1]

\* np.zeros((Nincr + 1, 2))
zeros == [ r \in 0 .. Nincr |-> << Zero, Zero >> ]

\* np.zeros((gdim,))
zerovec == [ c \in 1 .. gdim |-> Zero ]

\* results[i, ...]: the row index without the offset for row 0.
RowIndexNoOffset(k) == k

\* The row of results that iteration i writes: results[i + 1, ...].
RowIndex(k) == k + 1

\* -50e3 * t
ScaledLoad(tt) == RatMul(FloatOf(TargetLoad), tt)

\* selfweight.value[0] = val: the load on the first component.
SetFirst(vec, val) == [ vec EXCEPT ![1] = val ]

\* selfweight.value[-1] = val
SetLast(vec, val) == [ vec EXCEPT ![gdim] = val ]

\* max(np.abs(arr)) of a local array
RECURSIVE MaxOfSeq(_)
MaxOfSeq(s) ==
    IF Len(s) = 1 THEN s[1]
    ELSE LET m == MaxOfSeq(Tail(s)) IN IF s[1] > m THEN s[1] ELSE m

NpAbs(arr) == [ j \in 1 .. Len(arr) |-> Abs(arr[j]) ]

\* max(arr): the largest entry, signs kept.
LocalMaxSigned(arr) == FloatOf(MaxOfSeq(arr))

LocalMax(arr) == FloatOf(MaxOfSeq(NpAbs(arr)))

\* MPI.MAX over a nonempty set of numbers
MpiMax(S) == CHOOSE m \in S : \A x \in S : ~ RatLt(m, x)

\* What a float64 cell holds after `cell = obj`: None converts to NaN.
AsDouble(obj) == IF obj = None THEN NaN ELSE obj

---------------------------------------------------------------------------
Init ==
    /\ size \in 1 .. MaxProcs
    /\ pc = [ p \in Ranks |-> "for" ]
    /\ i = [ p \in Ranks |-> -1 ]
    /\ t = [ p \in Ranks |-> Zero ]
    /\ selfweight = [ p \in Ranks |-> zerovec ]
    /\ w = [ p \in Ranks |-> << 0, 0 >> ]
    /\ converged = [ p \in Ranks |-> FALSE ]
    /\ vtk = [ p \in Ranks |-> << >> ]
    /\ vtkOpen = [ p \in Ranks |-> TRUE ]
    /\ global_max = [ p \in Ranks |-> None ]
    /\ results = [ p \in Ranks |-> zeros ]
    /\ contrib = [ p \in Ranks |-> None ]
    /\ attempts = 0
    /\ nconv = 0
    /\ reduces = [ p \in Ranks |-> 0 ]

\* for i, t in enumerate(load_steps[1:]):  selfweight.value[-1] = -50e3 * t
LoopHead(p) ==
    /\ pc[p] = "for"
    /\ i[p] + 1 < NumSteps
    /\ i' = [ i EXCEPT ![p] = i[p] + 1 ]
    /\ t' = [ t EXCEPT ![p] = SliceItem(i[p] + 1) ]
    /\ selfweight' = [ selfweight EXCEPT
                         ![p] = SetLast(selfweight[p], ScaledLoad(t'[p])) ]
    /\ pc' = [ pc EXCEPT ![p] = "solve" ]
    /\ UNCHANGED << size, w, converged, vtk, vtkOpen, global_max, results,
                    contrib, attempts, nconv, reduces >>

\* The loop is exhausted: fall through to vtk.close().
LoopExit(p) ==
    /\ pc[p] = "for"
    /\ ~ (i[p] + 1 < NumSteps)
    /\ pc' = [ pc EXCEPT ![p] = "close" ]
    /\ UNCHANGED << size, i, t, selfweight, w, converged, vtk, vtkOpen,
                    global_max, results, contrib, attempts, nconv, reduces >>

\* converged, it = problem.solve(newton, ...): a collective call, entered by
\* every process and left by all of them together.  The solver changes the
\* displacement field in place whatever the outcome.
SolveReturns(flag) ==
    /\ \A p \in Ranks : pc[p] = "solve"
    /\ \E nw \in [ Ranks -> DofArrays ] : w' = nw
    /\ converged' = [ p \in Ranks |-> flag ]
    /\ attempts' = attempts + 1
    /\ nconv' = IF flag THEN nconv + 1 ELSE nconv
    /\ pc' = [ p \in Ranks |-> "write" ]
    /\ UNCHANGED << size, i, t, selfweight, vtk, vtkOpen, global_max,
                    results, contrib, reduces >>

\* The solve returns converged = True.
SolveConverged == SolveReturns(TRUE)

\* The solve returns converged = False.
SolveNotConverged == SolveReturns(FALSE)

\* The solve raises: the exception is not caught and ends every process.
SolveRaises ==
    /\ \A p \in Ranks : pc[p] = "solve"
    /\ \E nw \in [ Ranks -> DofArrays ] : w' = nw
    /\ attempts' = attempts + 1
    /\ pc' = [ p \in Ranks |-> "failed" ]
    /\ UNCHANGED << size, i, t, selfweight, converged, vtk, vtkOpen,
                    global_max, results, contrib, nconv, reduces >>

\* vtk.write_function(u, t)
WriteFunction(p) ==
    /\ pc[p] = "write"
    /\ vtk' = [ vtk EXCEPT ![p] = Append(vtk[p], t[p]) ]
    /\ pc' = [ pc EXCEPT ![p] = "reduce" ]
    /\ UNCHANGED << size, i, t, selfweight, w, converged, vtkOpen,
                    global_max, results, contrib, attempts, nconv, reduces >>

\* The values the root combines: its own and every other process's.
ReduceOperands(p) ==
    { LocalMax(w[p]) } \cup { contrib[q] : q \in Ranks \ {p} }

\* The reduction called on the root alone: another process passes the line
\* without sending anything.
ReduceSkipped(p) ==
    /\ pc[p] = "reduce"
    /\ p # Root
    /\ global_max' = [ global_max EXCEPT ![p] = None ]
    /\ reduces' = [ reduces EXCEPT ![p] = reduces[p] + 1 ]
    /\ pc' = [ pc EXCEPT ![p] = "store" ]
    /\ UNCHANGED << size, i, t, selfweight, w, converged, vtk, vtkOpen,
                    results, contrib, attempts, nconv >>

\* w = u.sub(1); local_max = max(np.abs(w.vector.array));
\* global_max = MPI.COMM_WORLD.reduce(local_max, op=MPI.MAX, root=0)
\* on a process other than the root: the value is sent, the call returns None
\* without waiting for the root.
ReduceSend(p) ==
    /\ pc[p] = "reduce"
    /\ p # Root
    /\ contrib[p] = None
    /\ contrib' = [ contrib EXCEPT ![p] = LocalMax(w[p]) ]
    /\ global_max' = [ global_max EXCEPT ![p] = None ]
    /\ reduces' = [ reduces EXCEPT ![p] = reduces[p] + 1 ]
    /\ pc' = [ pc EXCEPT ![p] = "store" ]
    /\ UNCHANGED << size, i, t, selfweight, w, converged, vtk, vtkOpen,
                    results, attempts, nconv >>

\* The same two lines on the root: the call returns once every other
\* process's value has arrived, with the maximum of all of them.
ReduceRoot(p) ==
    /\ pc[p] = "reduce"
    /\ p = Root
    /\ \A q \in Ranks \ {p} : contrib[q] # None
    /\ global_max' = [ global_max EXCEPT ![p] = MpiMax(ReduceOperands(p)) ]
    /\ contrib' = [ q \in Ranks |-> None ]
    /\ reduces' = [ reduces EXCEPT ![p] = reduces[p] + 1 ]
    /\ pc' = [ pc EXCEPT ![p] = "store" ]
    /\ UNCHANGED << size, i, t, selfweight, w, converged, vtk, vtkOpen,
                    results, attempts, nconv >>

\* results[i, 0] = global_max; results[i + 1, 1] = t: the displacement in
\* the row before.
StoreRowMixed(res, k, gm, tt) ==
    [ res EXCEPT ![k] = << AsDouble(gm), res[k][2] >>,
                 ![k + 1] = << res[k + 1][1], tt >> ]

\* results[i + 1, 0] = global_max; results[i + 1, 1] = t
StoreRow(res, k, gm, tt) ==
    [ res EXCEPT ![RowIndex(k)] = << AsDouble(gm), tt >> ]

Store(p) ==
    /\ pc[p] = "store"
    /\ results' = [ results EXCEPT
                      ![p] = StoreRow(results[p], i[p], global_max[p], t[p]) ]
    /\ pc' = [ pc EXCEPT ![p] = "for" ]
    /\ UNCHANGED << size, i, t, selfweight, w, converged, vtk, vtkOpen,
                    global_max, contrib, attempts, nconv, reduces >>

\* vtk.close()
Close(p) ==
    /\ pc[p] = "close"
    /\ vtkOpen' = [ vtkOpen EXCEPT ![p] = FALSE ]
    /\ pc' = [ pc EXCEPT ![p] = "done" ]
    /\ UNCHANGED << size, i, t, selfweight, w, converged, vtk, global_max,
                    results, contrib, attempts, nconv, reduces >>

Next ==
    \/ \E p \in Ranks : LoopHead(p)
    \/ \E p \in Ranks : LoopExit(p)
    \/ SolveConverged
    \/ SolveNotConverged
    \/ SolveRaises
    \/ \E p \in Ranks : WriteFunction(p)
    \/ \E p \in Ranks : ReduceSend(p)
    \/ \E p \in Ranks : ReduceRoot(p)
    \/ \E p \in Ranks : Store(p)
    \/ \E p \in Ranks : Close(p)

Spec == Init /\ [][Next]_vars

---------------------------------------------------------------------------
\* Vocabulary of the properties.

ZeroRow == << Zero, Zero >>

\* Process p is inside iteration i[p], at or after the solve.
AtSolve(p) == pc[p] = "solve"
AfterSolve(p) == pc[p] \in { "write", "reduce", "store" }

\* Process p has finished iteration i[p] (or, with i[p] = -1, not begun).
AtBoundary(p) == pc[p] \in { "for", "close", "done" }

\* Every solve made so far returned converged = True.
AllConverged == nconv = attempts

\* The fraction k / Nincr as an exact value.
Fraction(k) == RatNorm(k, Nincr)

Tags(p) == { vtk[p][j] : j \in 1 .. Len(vtk[p]) }

\* The largest |entry| over every process's local array, found directly.
GlobalMaxAbs ==
    LET S == { Abs(w[q][j]) : q \in Ranks, j \in 1 .. 2 }
    IN  FloatOf(CHOOSE m \in S : \A x \in S : x <= m)

---------------------------------------------------------------------------
\* C1: once a solve has not converged at step k, nothing further is
\* recorded: no snapshot for step k (each process holds one snapshot per
\* converged step and no more), row k and every later row keep (0, 0), and
\* no later solve is attempted.
C1_NonConvergenceEndsRun ==
    (nconv < attempts) =>
        /\ attempts = nconv + 1
        /\ \A p \in Ranks :
             /\ Len(vtk[p]) = nconv
             /\ \A r \in (nconv + 1) .. Nincr : results[p][r] = ZeroRow

\* C2: the result log always has exactly Nincr + 1 rows, and its row 0 is
\* (0, 0) in every state: no load step writes it.
C2_LogShape ==
    \A p \in Ranks :
        /\ DOMAIN results[p] = 0 .. Nincr
        /\ Cardinality(DOMAIN results[p]) = Nincr + 1
        /\ \A r \in DOMAIN results[p] : Len(results[p][r]) = 2
        /\ results[p][0] = ZeroRow

\* C2 witness: a process has closed the file with every row but row 0 written.
C2_Witness ==
    \E p \in Ranks :
        /\ pc[p] = "done"
        /\ \A r \in 1 .. Nincr : results[p][r] # ZeroRow

\* C3: when rank 0 has recorded the row of a converged step, the row holds
\* the maximum over all processes of the local maximum absolute value and
\* the step's load fraction.
C3_RowIsGlobalMax ==
    (pc[0] \in { "for", "close", "done" } /\ i[0] >= 0 /\ converged[0]) =>
        results[0][i[0] + 1] = << GlobalMaxAbs, Fraction(i[0] + 1) >>

\* C3 witness: two processes, the larger magnitude on the one that is not
\* rank 0 and coming from a negative entry, recorded by rank 0.
C3_Witness ==
    /\ size > 1
    /\ pc[0] = "for" /\ i[0] >= 0 /\ converged[0]
    /\ w[0] = << 1, -1 >>
    /\ w[1] = << -2, 1 >>
    /\ results[0][i[0] + 1][1] = FloatOf(2)

\* C4: a process holds exactly one snapshot per converged step and none for
\* a step that did not converge or for the zero load: between steps its
\* tags are the fractions of the converged steps so far, strictly
\* increasing; within a step the snapshot comes after the solve and before
\* the row.
C4_SnapshotPerConvergedStep ==
    \A p \in Ranks :
        /\ Len(vtk[p]) <= nconv
        /\ AtBoundary(p) => Len(vtk[p]) = nconv
        /\ Zero \notin Tags(p)
        /\ \A j \in 1 .. Len(vtk[p]) : \E k \in 1 .. Nincr : vtk[p][j] = Fraction(k)
        /\ \A j \in 1 .. (Len(vtk[p]) - 1) : RatLt(vtk[p][j], vtk[p][j + 1])
        /\ (AfterSolve(p) /\ ~ converged[p]) => t[p] \notin Tags(p)
        /\ (AtSolve(p) \/ pc[p] = "write") =>
               (t[p] \notin Tags(p) /\ results[p][i[p] + 1] = ZeroRow)
        /\ (pc[p] = "store" /\ converged[p]) =>
               (vtk[p][Len(vtk[p])] = t[p] /\ results[p][i[p] + 1] = ZeroRow)

\* The schedule: Nincr + 1 fractions k / Nincr, from exactly 0 to exactly 1,
\* strictly increasing.
ScheduleOK ==
    /\ DOMAIN load_steps = 0 .. Nincr
    /\ load_steps[0] = Zero
    /\ load_steps[Nincr] = One
    /\ \A k \in 0 .. Nincr : load_steps[k] = Fraction(k)
    /\ \A k \in 0 .. (Nincr - 1) : RatLt(load_steps[k], load_steps[k + 1])

\* The loop variable is fraction i + 1 of the schedule, for i in 0 .. Nincr-1.
VisitOK ==
    \A p \in Ranks :
        /\ i[p] \in -1 .. (Nincr - 1)
        /\ i[p] >= 0 => t[p] = Fraction(i[p] + 1)
        /\ pc[p] \in { "close", "done" } => i[p] = Nincr - 1

\* C5: the schedule is as above, and the loop visits fractions 1 .. Nincr in
\* increasing order: the index moves by exactly one, the fraction only grows.
C5_ScheduleAndVisits ==
    [][ /\ ScheduleOK
        /\ VisitOK /\ VisitOK'
        /\ \A p \in Ranks :
             /\ i'[p] \in { i[p], i[p] + 1 }
             /\ (i'[p] = i[p] + 1) <=> (t'[p] # t[p])
             /\ (t'[p] # t[p]) => RatLt(t[p], t'[p]) ]_vars

\* C5 witness: a process has left the loop, its last fraction exactly 1.
C5_Witness ==
    \E p \in Ranks : pc[p] = "done" /\ t[p] = One /\ i[p] = Nincr - 1

\* C6: while every solve converges, the number of solve attempts is the
\* number of steps begun, one per step, and a process leaves the loop only
\* after Nincr of them.
C6_OneSolvePerStep ==
    AllConverged =>
        \A p \in Ranks :
            /\ pc[p] # "failed"
            /\ i[p] >= 0 => t[p] = Fraction(i[p] + 1)
            /\ AtSolve(p) => attempts = i[p]
            /\ (AfterSolve(p) \/ AtBoundary(p)) => attempts = i[p] + 1
            /\ pc[p] \in { "close", "done" } => attempts = Nincr

\* C6 witness: every process is done after Nincr converged solves.
C6_Witness ==
    /\ \A p \in Ranks : pc[p] = "done"
    /\ AllConverged
    /\ attempts = Nincr

\* Rows beyond the current step hold their initial value.
LaterRowsInitial ==
    \A p \in Ranks : \A r \in (i[p] + 2) .. Nincr : results[p][r] = ZeroRow

\* C7: the log is append-only: a row changes only when its own step stores
\* it, it held (0, 0) until then, and rows beyond the current step are
\* still (0, 0).
C7_AppendOnly ==
    [][ /\ LaterRowsInitial /\ LaterRowsInitial'
        /\ \A p \in Ranks : \A r \in 0 .. Nincr :
             (results'[p][r] # results[p][r]) =>
                 /\ pc[p] = "store"
                 /\ r = i[p] + 1
                 /\ r >= 1
                 /\ results[p][r] = ZeroRow ]_vars

\* C7 witness: in step 2, row 1 is written and the rows after 2 are not.
C7_Witness ==
    \E p \in Ranks :
        /\ pc[p] = "for" /\ i[p] = 1
        /\ results[p][1] # ZeroRow
        /\ results[p][2] # ZeroRow
        /\ \A r \in 3 .. Nincr : results[p][r] = ZeroRow

\* One reduction per step on every process, the result on rank 0 alone, and
\* no message outside the reduction.
ReductionCountOK ==
    \A p \in Ranks :
        /\ pc[p] \in { "solve", "write", "reduce" } => reduces[p] = i[p]
        /\ (pc[p] = "store" \/ AtBoundary(p)) => reduces[p] = i[p] + 1
        /\ pc[p] \in { "close", "done" } => reduces[p] = Nincr
        /\ pc[p] = "store" => ((global_max[p] # None) <=> (p = 0))
        /\ contrib[0] = None
        /\ (contrib[p] # None) => ~ (pc[p] \in { "write", "reduce" })

\* Rank 0 completes a reduction in this step.
RootCompletes == pc[0] = "reduce" /\ pc'[0] = "store"

\* C8 as stated: one reduction per step on every process, delivered to rank
\* 0, and all processes at the same load step when a reduction completes.
C8_SameStepAtReduction ==
    [][ /\ ReductionCountOK
        /\ RootCompletes => \A p \in Ranks : i[p] = i[0] ]_vars

\* C8 amended: one reduction per step on every process, delivered to rank 0;
\* when a reduction completes on rank 0 every process has made the same
\* number of solves and given its value of that step, and a process that is
\* a step ahead has done no more than set the next load and wait at the
\* solve.
C8_SameSolveAtReduction ==
    [][ /\ ReductionCountOK /\ ReductionCountOK'
        /\ RootCompletes =>
             \A p \in Ranks :
                 /\ reduces'[p] = reduces'[0]
                 /\ \/ i[p] = i[0]
                    \/ i[p] = i[0] + 1 /\ pc[p] = "solve"
                 /\ global_max'[0] = GlobalMaxAbs ]_vars

\* C8 witness: rank 0 has completed its second reduction while another
\* process is already a step ahead.
C8_Witness ==
    /\ size > 1
    /\ pc[0] = "store" /\ reduces[0] = 2
    /\ \E p \in Ranks : i[p] = i[0] + 1

\* The self-weight of process p: every component but the last is 0, the
\* last is -50e3 * (i + 1) / Nincr once iteration i has begun.
SelfweightOK ==
    \A p \in Ranks :
        /\ \A c \in 1 .. (gdim - 1) : selfweight[p][c] = Zero
        /\ selfweight[p][gdim] = RatNorm(-50000 * (i[p] + 1), Nincr)
        /\ (selfweight[p][gdim] = FloatOf(-50000)) <=> (i[p] = Nincr - 1)

\* C9: the self-weight is set before the solve of its step, and its
\* magnitude grows strictly from step to step up to 50e3 at the last.
C9_SelfweightSchedule ==
    [][ /\ SelfweightOK /\ SelfweightOK'
        /\ \A p \in Ranks :
             /\ (pc'[p] = "solve" /\ pc[p] # "solve") =>
                    selfweight'[p][gdim] = RatNorm(-50000 * (i'[p] + 1), Nincr)
             /\ (selfweight'[p] # selfweight[p]) =>
                    RatLt(RatAbs(selfweight[p][gdim]),
                          RatAbs(selfweight'[p][gdim])) ]_vars

\* C9 witness: the last solve is about to run under the full load.
C9_Witness ==
    \E p \in Ranks :
        /\ pc[p] = "solve" /\ i[p] = Nincr - 1
        /\ selfweight[p] = << Zero, FloatOf(-50000) >>

\* Every process has left the script.
AllDone == \A p \in Ranks : pc[p] = "done"

\* C10: with several processes and every solve converging, each process
\* records a row at each step (rank 0 the maximum, the others NaN, both with
\* the step's fraction), none fails, and unless all are done some process
\* can move: none waits for a peer that has stopped.
C10_AllProcessesComplete ==
    (size > 1 /\ AllConverged) =>
        /\ \A p \in Ranks :
             /\ pc[p] # "failed"
             /\ (AtBoundary(p) /\ i[p] >= 0) =>
                    \A r \in 1 .. (i[p] + 1) :
                        /\ results[p][r][2] = Fraction(r)
                        /\ (p = 0) <=> (results[p][r][1] # NaN)
             /\ pc[p] = "done" => (~ vtkOpen[p] /\ i[p] = Nincr - 1)
        /\ AllDone \/ ENABLED Next

\* C10 witness: several processes, all done after Nincr converged solves.
C10_Witness ==
    /\ size > 1
    /\ AllDone
    /\ AllConverged /\ attempts = Nincr
    /\ \A p \in Ranks : ~ vtkOpen[p]

===========================================================================
